---------------------------- MODULE Spec2Model ----------------------------
(* Minesweeper rules engine: Board / Cell / CellState of components.py.   *)
(* The board is a flat list of cells addressed by row * cols + col.  Each *)
(* public method of Board is one action; random.shuffle in place_mines is *)
(* a nondeterministic choice of the mine positions among the pool.        *)
EXTENDS Integers, Sequences, FiniteSets, TLC

(* ---------------------------------------------------------------------- *)
(* Bounds on the constructor arguments explored.  Boards are explored up *)
(* to transposition: rows <= cols.                                        *)
(* ---------------------------------------------------------------------- *)
MaxCols == 4
MaxRows == 3
MaxMines == 2
MaxCells == 12

VARIABLES
  cols,            \* Board.cols
  rows,            \* Board.rows
  num_mines,       \* Board.num_mines
  cells,           \* Board.cells: flat index -> CellState
  mines_placed,    \* Board._mines_placed
  revealed_count,  \* Board.revealed_count
  game_over,       \* Board.game_over
  win,             \* Board.win
  anchor,          \* history: <<col,row>> of the call that placed the mines
  last,            \* history: which method ran last and which path it took
  ret              \* return value of the last call

board == <<cols, rows, num_mines, cells, mines_placed, revealed_count,
           game_over, win>>
vars == <<cols, rows, num_mines, cells, mines_placed, revealed_count,
          game_over, win, anchor, last, ret>>

(* ---------------------------------------------------------------------- *)
(* Values                                                                 *)
(* ---------------------------------------------------------------------- *)
\* Python's None as a tagged record (an int n would be kind "int", val n)
NoneVal == [kind |-> "None", val |-> 0]

\* CellState.__init__ defaults
CellState == [is_mine |-> FALSE, is_revealed |-> FALSE,
              is_flagged |-> FALSE, adjacent |-> 0]

Max(a, b) == IF a >= b THEN a ELSE b
Min(a, b) == IF a <= b THEN a ELSE b

\* len(range(n))
RangeLen(n) == Max(n, 0)

(* ---------------------------------------------------------------------- *)
(* Coordinate utilities                                                   *)
(* ---------------------------------------------------------------------- *)
index(col, row) == row * cols + col

is_inbounds(col, row) == 0 <= col /\ col < cols /\ 0 <= row /\ row < rows

deltas == << <<-1, -1>>, <<0, -1>>, <<1, -1>>,
             <<-1, 0>>,             <<1, 0>>,
             <<-1, 1>>,  <<0, 1>>,  <<1, 1>> >>

InBoundsPair(p) == is_inbounds(p[1], p[2])

\* list of the in-bounds coordinates around (col,row), in delta order
neighbors(col, row) ==
  SelectSeq([i \in 1..Len(deltas) |-> <<col + deltas[i][1], row + deltas[i][2]>>],
            InBoundsPair)

SeqToSet(s) == {s[i] : i \in 1..Len(s)}

\* [(c, r) for r in range(rows) for c in range(cols)]
all_positions == {<<c, r>> : c \in 0..(cols - 1), r \in 0..(rows - 1)}

(* ---------------------------------------------------------------------- *)
(* Mine placement                                                         *)
(* ---------------------------------------------------------------------- *)
forbidden(safe_col, safe_row) ==
  {<<safe_col, safe_row>>} \cup SeqToSet(neighbors(safe_col, safe_row))

\* variant: only the clicked cell is kept out of the pool
pool_click_only(safe_col, safe_row) == all_positions \ {<<safe_col, safe_row>>}

pool(safe_col, safe_row) == all_positions \ forbidden(safe_col, safe_row)

\* variant: the slice takes one position too many
SliceLen_one_more(len, n) == IF n >= 0 THEN Min(n + 1, len) ELSE Max(len + n, 0)

\* len(lst[:n]) for a list of length len: a negative n counts from the end
SliceLen(len, n) == IF n >= 0 THEN Min(n, len) ELSE Max(len + n, 0)

\* the sets random.shuffle(pool); pool[:num_mines] can produce
mine_positions(safe_col, safe_row) ==
  LET p == pool(safe_col, safe_row) IN
  {S \in SUBSET p : Cardinality(S) = SliceLen(Cardinality(p), num_mines)}

\* the cells after marking the mines
mark_mines(cs, S) ==
  [i \in DOMAIN cs |->
     IF \E p \in S : index(p[1], p[2]) = i
       THEN [cs[i] EXCEPT !.is_mine = TRUE] ELSE cs[i]]

\* variant: only the neighbours in the same row or column are counted
adjacent_mines_orthogonal(cs, c, r) ==
  LET ns == neighbors(c, r) IN
  Cardinality({k \in 1..Len(ns) :
                 /\ ns[k][1] = c \/ ns[k][2] = r
                 /\ cs[index(ns[k][1], ns[k][2])].is_mine})

\* number of mine neighbours of (c,r) in cs
adjacent_mines(cs, c, r) ==
  LET ns == neighbors(c, r) IN
  Cardinality({k \in 1..Len(ns) : cs[index(ns[k][1], ns[k][2])].is_mine})

\* the adjacency pass: every non-mine cell gets its count
compute_adjacent(cs) ==
  [i \in DOMAIN cs |->
     IF cs[i].is_mine THEN cs[i]
     ELSE [cs[i] EXCEPT !.adjacent = adjacent_mines(cs, i % cols, i \div cols)]]

\* Board.place_mines with the shuffle outcome S
place_mines(cs, S) == compute_adjacent(mark_mines(cs, S))

(* ---------------------------------------------------------------------- *)
(* Reveal helpers                                                         *)
(* ---------------------------------------------------------------------- *)
\* variant: the loss reveals every cell, not only the mines
reveal_all_cells(cs) == [i \in DOMAIN cs |-> [cs[i] EXCEPT !.is_revealed = TRUE]]

\* Board._reveal_all_mines
reveal_all_mines(cs) ==
  [i \in DOMAIN cs |->
     IF cs[i].is_mine THEN [cs[i] EXCEPT !.is_revealed = TRUE] ELSE cs[i]]

\* variant: the completion loop of the win check opens every hidden cell,
\* mines included
check_win_opening_mines(cs, count, over, w) ==
  IF count = cols * rows - num_mines /\ ~over
    THEN [win |-> TRUE,
          cells |-> [i \in DOMAIN cs |->
                       IF ~cs[i].is_revealed
                         THEN [cs[i] EXCEPT !.is_revealed = TRUE] ELSE cs[i]]]
    ELSE [win |-> w, cells |-> cs]

\* variant: the win check forgets to look at game_over
check_win_ignoring_loss(cs, count, over, w) ==
  IF count = cols * rows - num_mines
    THEN [win |-> TRUE,
          cells |-> [i \in DOMAIN cs |->
                       IF ~cs[i].is_revealed /\ ~cs[i].is_mine
                         THEN [cs[i] EXCEPT !.is_revealed = TRUE] ELSE cs[i]]]
    ELSE [win |-> w, cells |-> cs]

\* Board._check_win: the win flag and the cells it leaves
check_win(cs, count, over, w) ==
  IF count = cols * rows - num_mines /\ ~over
    THEN [win |-> TRUE,
          cells |-> [i \in DOMAIN cs |->
                       IF ~cs[i].is_revealed /\ ~cs[i].is_mine
                         THEN [cs[i] EXCEPT !.is_revealed = TRUE] ELSE cs[i]]]
    ELSE [win |-> w, cells |-> cs]

\* variant: the counter is bumped for every coordinate taken off the queue
\* for the first time, before the skip tests
RECURSIVE flood_fill_counting_visits(_, _, _, _)
flood_fill_counting_visits(queue, visited, cs, count) ==
  IF queue = <<>>
    THEN [cells |-> cs, revealed_count |-> count, visited |-> visited,
          processed |-> <<>>, dequeued |-> 0]
    ELSE
      LET p == Head(queue)
          rest == Tail(queue)
          idx == index(p[1], p[2])
      IN
      IF p \in visited
        THEN [flood_fill_counting_visits(rest, visited, cs, count)
                EXCEPT !.dequeued = @ + 1]
      ELSE
        LET v2 == visited \cup {p}
            cs2 == [cs EXCEPT ![idx].is_revealed = TRUE]
            NotVisited(n) == n \notin v2
            q2 == IF cs[idx].adjacent = 0
                    THEN rest \o SelectSeq(neighbors(p[1], p[2]), NotVisited)
                    ELSE rest
            f == IF cs[idx].is_revealed \/ cs[idx].is_flagged
                   THEN flood_fill_counting_visits(rest, v2, cs, count + 1)
                 ELSE IF cs[idx].is_mine
                   THEN flood_fill_counting_visits(rest, v2, cs, count + 1)
                 ELSE flood_fill_counting_visits(q2, v2, cs2, count + 1)
        IN [f EXCEPT !.dequeued = @ + 1, !.processed = <<p>> \o @]

\* variant: the spreading test is inverted (adjacent # 0)
RECURSIVE flood_fill_inverted_spread(_, _, _, _)
flood_fill_inverted_spread(queue, visited, cs, count) ==
  IF queue = <<>>
    THEN [cells |-> cs, revealed_count |-> count, visited |-> visited,
          processed |-> <<>>, dequeued |-> 0]
    ELSE
      LET p == Head(queue)
          rest == Tail(queue)
          idx == index(p[1], p[2])
      IN
      IF p \in visited
        THEN [flood_fill_inverted_spread(rest, visited, cs, count)
                EXCEPT !.dequeued = @ + 1]
      ELSE
        LET v2 == visited \cup {p}
            cs2 == [cs EXCEPT ![idx].is_revealed = TRUE]
            NotVisited(n) == n \notin v2
            q2 == IF cs[idx].adjacent # 0
                    THEN rest \o SelectSeq(neighbors(p[1], p[2]), NotVisited)
                    ELSE rest
            f == IF cs[idx].is_revealed \/ cs[idx].is_flagged
                   THEN flood_fill_inverted_spread(rest, v2, cs, count)
                 ELSE IF cs[idx].is_mine
                   THEN flood_fill_inverted_spread(rest, v2, cs, count)
                 ELSE flood_fill_inverted_spread(q2, v2, cs2, count + 1)
        IN [f EXCEPT !.dequeued = @ + 1, !.processed = <<p>> \o @]

\* variant: the loop does not test visited when it takes a coordinate off
\* the queue
RECURSIVE flood_fill_without_visited_test(_, _, _, _)
flood_fill_without_visited_test(queue, visited, cs, count) ==
  IF queue = <<>>
    THEN [cells |-> cs, revealed_count |-> count, visited |-> visited,
          processed |-> <<>>, dequeued |-> 0]
    ELSE
      LET p == Head(queue)
          rest == Tail(queue)
          idx == index(p[1], p[2])
          v2 == visited \cup {p}
          cs2 == [cs EXCEPT ![idx].is_revealed = TRUE]
          NotVisited(n) == n \notin v2
          q2 == IF cs[idx].adjacent = 0
                  THEN rest \o SelectSeq(neighbors(p[1], p[2]), NotVisited)
                  ELSE rest
          f == IF cs[idx].is_revealed \/ cs[idx].is_flagged
                 THEN flood_fill_without_visited_test(rest, v2, cs, count)
               ELSE IF cs[idx].is_mine
                 THEN flood_fill_without_visited_test(rest, v2, cs, count)
               ELSE flood_fill_without_visited_test(q2, v2, cs2, count + 1)
      IN [f EXCEPT !.dequeued = @ + 1, !.processed = <<p>> \o @]

\* the while-queue loop of Board.reveal.  Besides the cells and the counter
\* it leaves, the result records the loop's run: processed is the list of
\* coordinates in the order they were added to visited, dequeued the number
\* of popleft calls.
RECURSIVE flood_fill(_, _, _, _)
flood_fill(queue, visited, cs, count) ==
  IF queue = <<>>
    THEN [cells |-> cs, revealed_count |-> count, visited |-> visited,
          processed |-> <<>>, dequeued |-> 0]
    ELSE
      LET p == Head(queue)
          rest == Tail(queue)
          idx == index(p[1], p[2])
      IN
      IF p \in visited
        THEN [flood_fill(rest, visited, cs, count) EXCEPT !.dequeued = @ + 1]
      ELSE
        LET v2 == visited \cup {p}
            cs2 == [cs EXCEPT ![idx].is_revealed = TRUE]
            NotVisited(n) == n \notin v2
            q2 == IF cs[idx].adjacent = 0
                    THEN rest \o SelectSeq(neighbors(p[1], p[2]), NotVisited)
                    ELSE rest
            f == IF cs[idx].is_revealed \/ cs[idx].is_flagged
                   THEN flood_fill(rest, v2, cs, count)
                 ELSE IF cs[idx].is_mine
                   THEN flood_fill(rest, v2, cs, count)
                 ELSE flood_fill(q2, v2, cs2, count + 1)
        IN [f EXCEPT !.dequeued = @ + 1, !.processed = <<p>> \o @]

(* ---------------------------------------------------------------------- *)
(* Construction                                                           *)
(* ---------------------------------------------------------------------- *)
\* Board.__init__(c, r, m)
BoardInit(c, r, m) ==
  /\ cols = c
  /\ rows = r
  /\ num_mines = m
  /\ cells = [i \in 0..(RangeLen(r) * RangeLen(c) - 1) |-> CellState]
  /\ mines_placed = FALSE
  /\ revealed_count = 0
  /\ game_over = FALSE
  /\ win = FALSE

Init ==
  /\ \E c \in 0..MaxCols, r \in 0..MaxRows, m \in -1..MaxMines :
       r <= c /\ c * r <= MaxCells /\ BoardInit(c, r, m)
  /\ anchor = <<>>
  /\ last = [op |-> "init", path |-> "", placed |-> FALSE]
  /\ ret = NoneVal

(* ---------------------------------------------------------------------- *)
(* Operations                                                             *)
(* ---------------------------------------------------------------------- *)
\* the arguments a caller may pass: every cell and a ring outside the board
Cols == -1..cols
Rows == -1..rows

\* variant: the placement flag is raised before the bounds check returns
reveal_out_of_bounds_marks_placed ==
  /\ last' = [op |-> "reveal", path |-> "oob", placed |-> FALSE]
  /\ mines_placed' = TRUE
  /\ UNCHANGED <<cols, rows, num_mines, cells, revealed_count, game_over, win,
                 anchor>>
  /\ ret' = NoneVal

\* the early return of Board.reveal on an out-of-bounds coordinate
reveal_out_of_bounds ==
  /\ last' = [op |-> "reveal", path |-> "oob", placed |-> FALSE]
  /\ UNCHANGED <<board, anchor>>
  /\ ret' = NoneVal

\* variant: the counter is bumped before the already-revealed test returns
reveal_with_early_count(col, row, S) ==
  IF ~is_inbounds(col, row)
    THEN reveal_out_of_bounds
    ELSE
      LET cs1 == IF mines_placed THEN cells ELSE place_mines(cells, S)
          cell == cs1[index(col, row)]
          placing == ~mines_placed
      IN
      /\ mines_placed' = TRUE
      /\ anchor' = IF placing THEN <<col, row>> ELSE anchor
      /\ ret' = NoneVal
      /\ UNCHANGED <<cols, rows, num_mines>>
      /\ IF cell.is_revealed \/ cell.is_flagged
           THEN /\ last' = [op |-> "reveal", path |-> "noop", placed |-> placing]
                /\ revealed_count' = revealed_count + 1
                /\ UNCHANGED <<game_over, win>>
                /\ cells' = cs1
         ELSE IF cell.is_mine
           THEN /\ last' = [op |-> "reveal", path |-> "mine", placed |-> placing]
                /\ game_over' = TRUE
                /\ UNCHANGED <<revealed_count, win>>
                /\ cells' = reveal_all_mines(cs1)
         ELSE
           LET f == flood_fill(<< <<col, row>> >>, {}, cs1, revealed_count)
               w == check_win(f.cells, f.revealed_count, game_over, win)
           IN
           /\ last' = [op |-> "reveal", path |-> "fill", placed |-> placing]
           /\ UNCHANGED game_over
           /\ revealed_count' = f.revealed_count
           /\ cells' = w.cells
           /\ win' = w.win

\* Board.reveal(col, row), where S is what the shuffle would select
reveal_with(col, row, S) ==
  IF ~is_inbounds(col, row)
    THEN reveal_out_of_bounds
    ELSE
      LET cs1 == IF mines_placed THEN cells ELSE place_mines(cells, S)
          cell == cs1[index(col, row)]
          placing == ~mines_placed
      IN
      /\ mines_placed' = TRUE
      /\ anchor' = IF placing THEN <<col, row>> ELSE anchor
      /\ ret' = NoneVal
      /\ UNCHANGED <<cols, rows, num_mines>>
      /\ IF cell.is_revealed \/ cell.is_flagged
           THEN /\ last' = [op |-> "reveal", path |-> "noop", placed |-> placing]
                /\ UNCHANGED <<revealed_count, game_over, win>>
                /\ cells' = cs1
         ELSE IF cell.is_mine
           THEN /\ last' = [op |-> "reveal", path |-> "mine", placed |-> placing]
                /\ game_over' = TRUE
                /\ UNCHANGED <<revealed_count, win>>
                /\ cells' = reveal_all_mines(cs1)
         ELSE
           LET f == flood_fill(<< <<col, row>> >>, {}, cs1, revealed_count)
               w == check_win(f.cells, f.revealed_count, game_over, win)
           IN
           /\ last' = [op |-> "reveal", path |-> "fill", placed |-> placing]
           /\ UNCHANGED game_over
           /\ revealed_count' = f.revealed_count
           /\ cells' = w.cells
           /\ win' = w.win

reveal(col, row) ==
  IF is_inbounds(col, row) /\ ~mines_placed
    THEN \E S \in mine_positions(col, row) : reveal_with(col, row, S)
    ELSE reveal_with(col, row, {})

\* Board.toggle_flag(col, row): the body is a bare pass
toggle_flag(col, row) ==
  /\ UNCHANGED <<board, anchor>>
  /\ last' = [op |-> "toggle_flag", path |-> "", placed |-> FALSE]
  /\ ret' = NoneVal

\* Board.flagged_count(): the body is a bare pass, so it returns None
flagged_count ==
  /\ UNCHANGED <<board, anchor>>
  /\ last' = [op |-> "flagged_count", path |-> "", placed |-> FALSE]
  /\ ret' = NoneVal

Reveal == \E col \in Cols, row \in Rows : reveal(col, row)
ToggleFlag == \E col \in Cols, row \in Rows : toggle_flag(col, row)
FlaggedCount == flagged_count

Next == Reveal \/ ToggleFlag \/ FlaggedCount

Spec == Init /\ [][Next]_vars

(* ---------------------------------------------------------------------- *)
(* Properties                                                             *)
(* ---------------------------------------------------------------------- *)
\* the precondition of section 4.1 on the constructor arguments
ValidConfiguration ==
  cols > 0 /\ rows > 0 /\ 0 <= num_mines /\ num_mines <= cols * rows - 9

MineSet == {i \in DOMAIN cells : cells[i].is_mine}
FlaggedSet == {i \in DOMAIN cells : cells[i].is_flagged}

\* C1: after the first in-bounds reveal(c,r), the cell (c,r) and each of its
\* in-bounds neighbours is not a mine, and that first reveal does not set
\* game_over.
C1_FirstClickSafe ==
  mines_placed =>
    /\ \A p \in forbidden(anchor[1], anchor[2]) :
         ~cells[index(p[1], p[2])].is_mine
    /\ last.placed => ~game_over

\* a first reveal has just placed at least one mine
C1_Witness == last.placed /\ MineSet # {} /\ ~game_over

\* C2 (as claimed): a Board whose arguments break the precondition of 4.1
\* is never created, so reveal never runs on one.
C2_ConstructionValidates == last.op = "reveal" => ValidConfiguration

\* C3: on a valid board no cell is a mine before the first in-bounds reveal,
\* exactly num_mines cells are mines once the mines are placed, and no later
\* call changes which cells are mines.
C3_MinesPlacedOnce ==
  [][ValidConfiguration =>
       /\ ~mines_placed => MineSet = {}
       /\ mines_placed' => Cardinality(MineSet') = num_mines
       /\ mines_placed => MineSet' = MineSet]_vars

\* a valid board with a mine, after a reveal that followed the placing one
C3_Witness ==
  /\ ValidConfiguration /\ mines_placed /\ num_mines >= 1
  /\ Cardinality(MineSet) = num_mines
  /\ last.op = "reveal" /\ last.path = "fill" /\ ~last.placed

\* C4 (as claimed): on a valid board win and game_over never hold together.
C4_WinLossExclusive == ValidConfiguration => ~(win /\ game_over)

\* C5 (as claimed): once game_over or win is true, no call changes any
\* cell's is_mine or is_revealed, nor revealed_count, game_over or win
\* (stated for the boards that meet the precondition of 4.1).
C5_TerminalFrozen ==
  [][(ValidConfiguration /\ (game_over \/ win)) =>
       /\ \A i \in DOMAIN cells :
            /\ cells'[i].is_mine = cells[i].is_mine
            /\ cells'[i].is_revealed = cells[i].is_revealed
       /\ revealed_count' = revealed_count
       /\ game_over' = game_over
       /\ win' = win]_vars

\* C6: on a valid board a call changes win from false to true exactly when
\* it is a reveal after which revealed_count = cols*rows - num_mines and
\* game_over is false; and when win has just been set every non-mine cell is
\* revealed.
C6_WinCondition ==
  [][ValidConfiguration =>
       /\ (~win /\ win') <=>
            (/\ ~win
             /\ last'.op = "reveal"
             /\ revealed_count' = cols * rows - num_mines
             /\ ~game_over')
       /\ (~win /\ win') =>
            \A i \in DOMAIN cells : ~cells'[i].is_mine => cells'[i].is_revealed]_vars

\* a flood fill on a valid board with a mine has just set win
C6_Witness ==
  /\ ValidConfiguration /\ num_mines >= 1
  /\ last.op = "reveal" /\ last.path = "fill" /\ ~last.placed
  /\ win /\ ~game_over

\* C7: a reveal call turns game_over true exactly when its target is an
\* in-bounds mine cell that is neither flagged nor revealed; after such a
\* call every mine cell is revealed, and the is_revealed of every non-mine
\* cell, revealed_count and win are as before the call.
C7_LossCondition ==
  [][last'.op = "reveal" =>
       LET hit(c, r) == /\ is_inbounds(c, r)
                        /\ cells[index(c, r)].is_mine
                        /\ ~cells[index(c, r)].is_flagged
                        /\ ~cells[index(c, r)].is_revealed
           loss == ~game_over /\ game_over'
           after == /\ \A i \in DOMAIN cells :
                         IF cells'[i].is_mine
                           THEN cells'[i].is_revealed
                           ELSE cells'[i].is_revealed = cells[i].is_revealed
                    /\ revealed_count' = revealed_count
                    /\ win' = win
       IN
       /\ loss => \A c \in Cols, r \in Rows : hit(c, r) \/ ~reveal(c, r)
       /\ last'.path = "mine" =>
            \A c \in Cols, r \in Rows :
              (hit(c, r) /\ reveal(c, r)) => (loss /\ after)]_vars

\* a reveal has just hit a mine on a board with several mines and with
\* unrevealed non-mine cells
C7_Witness ==
  /\ last.op = "reveal" /\ last.path = "mine" /\ game_over
  /\ Cardinality(MineSet) >= 2
  /\ \E i \in DOMAIN cells : ~cells[i].is_mine /\ ~cells[i].is_revealed

\* C8 (as claimed): toggle_flag on an in-bounds unrevealed cell inverts that
\* cell's is_flagged and changes nothing else (stated for the boards that
\* meet the precondition of 4.1).
C8_ToggleInverts ==
  [][\A c \in Cols, r \in Rows :
       (/\ ValidConfiguration
        /\ is_inbounds(c, r)
        /\ ~cells[index(c, r)].is_revealed
        /\ toggle_flag(c, r)) =>
         /\ cells'[index(c, r)].is_flagged = ~cells[index(c, r)].is_flagged
         /\ \A i \in DOMAIN cells :
              /\ cells'[i].is_mine = cells[i].is_mine
              /\ cells'[i].is_revealed = cells[i].is_revealed
              /\ i # index(c, r) => cells'[i].is_flagged = cells[i].is_flagged
         /\ UNCHANGED <<revealed_count, game_over, win>>]_vars

\* C9 (as claimed): flagged_count returns the number of flagged cells as an
\* integer and changes no state (stated for the boards that meet the
\* precondition of 4.1).
C9_FlaggedCountReturnsCount ==
  [][(ValidConfiguration /\ flagged_count) =>
       /\ ret'.kind = "int"
       /\ ret'.val = Cardinality(FlaggedSet)
       /\ UNCHANGED board]_vars

\* C10: reveal with an out-of-bounds coordinate changes nothing: no cell,
\* not revealed_count, game_over or win, and the mines stay unplaced if they
\* were unplaced (a step that changes any of these is no out-of-bounds
\* reveal).
C10_OutOfBoundsRevealNoOp ==
  [][UNCHANGED <<board, anchor>> \/
       \A c \in Cols, r \in Rows : is_inbounds(c, r) \/ ~reveal(c, r)]_vars

\* an out-of-bounds reveal has just run on a board with cells whose mines
\* are still unplaced
C10_Witness ==
  /\ last.op = "reveal" /\ last.path = "oob"
  /\ ~mines_placed /\ cols > 0 /\ rows > 0

\* C11: reveal on an in-bounds cell that is already revealed or is flagged
\* changes nothing: every cell's is_mine, is_revealed, is_flagged and
\* adjacent, and revealed_count, game_over and win are as before the call
\* (a step that changes any of these is no reveal of such a cell).
C11_RevealOnRevealedNoOp ==
  [][UNCHANGED <<cells, revealed_count, game_over, win>> \/
       \A c \in Cols, r \in Rows :
         ~(/\ is_inbounds(c, r)
           /\ (cells[index(c, r)].is_revealed \/ cells[index(c, r)].is_flagged)
           /\ reveal(c, r))]_vars

\* a reveal has just been ignored on a revealed cell of a game still running
\* with hidden cells left
C11_Witness ==
  /\ last.op = "reveal" /\ last.path = "noop"
  /\ ~game_over /\ ~win /\ revealed_count >= 1
  /\ \E i \in DOMAIN cells : ~cells[i].is_revealed /\ ~cells[i].is_mine

RevealedSet == {i \in DOMAIN cells : cells[i].is_revealed}

\* C12: revealed_count never decreases; it changes only in a reveal call
\* that runs the flood fill, and then by exactly the number of cells that
\* call newly reveals; on a valid board it never exceeds
\* cols*rows - num_mines.
C12_RevealedCountMonotone ==
  [][LET newly == Cardinality(RevealedSet' \ RevealedSet) IN
     /\ revealed_count' >= revealed_count
     /\ revealed_count' # revealed_count =>
          (last'.op = "reveal" /\ last'.path = "fill")
     /\ (last'.op = "reveal" /\ last'.path = "fill") =>
          (newly >= 1 /\ revealed_count' = revealed_count + newly)
     /\ ValidConfiguration =>
          /\ revealed_count <= cols * rows - num_mines
          /\ revealed_count' <= cols * rows - num_mines]_vars

\* a flood fill after the placing one has just raised the counter on a
\* valid board with a mine, without finishing the game
C12_Witness ==
  /\ ValidConfiguration /\ num_mines >= 1
  /\ last.op = "reveal" /\ last.path = "fill" /\ ~last.placed
  /\ ~win /\ ~game_over
  /\ revealed_count < cols * rows - num_mines

\* C13: on a valid board built with 0 mines the first in-bounds reveal
\* reveals every cell in that one call, leaves revealed_count = cols*rows,
\* sets win and leaves game_over false.
C13_ZeroMinesFirstRevealWins ==
  (ValidConfiguration /\ num_mines = 0 /\ mines_placed) =>
    /\ \A i \in DOMAIN cells : cells[i].is_revealed
    /\ revealed_count = cols * rows
    /\ win
    /\ ~game_over

\* the first reveal has just run on a valid board without mines
C13_Witness ==
  /\ ValidConfiguration /\ num_mines = 0
  /\ last.op = "reveal" /\ last.placed
  /\ win /\ revealed_count = cols * rows

\* the coordinates of the revealed cells of cs
RevealedAt(cs) == {p \in all_positions : cs[index(p[1], p[2])].is_revealed}

\* one round of the closure: the in-bounds neighbours of the members of R
\* whose adjacent is 0 join R
RECURSIVE ReachClosure(_, _)
ReachClosure(cs, R) ==
  LET zeros == {p \in R : cs[index(p[1], p[2])].adjacent = 0}
      R2 == R \cup UNION {SeqToSet(neighbors(p[1], p[2])) : p \in zeros}
  IN IF R2 = R THEN R ELSE ReachClosure(cs, R2)

\* Reach(t): the least set that contains t and every in-bounds neighbour of a
\* member with adjacent = 0
Reach(cs, c, r) == ReachClosure(cs, {<<c, r>>})

\* reveal(c, r) as a predicate on a step, with the shuffle outcome read off
\* the mines of the next state instead of searched for
RevealStep(c, r) ==
  IF is_inbounds(c, r) /\ ~mines_placed
    THEN LET S == {p \in all_positions : cells'[index(p[1], p[2])].is_mine}
         IN S \in mine_positions(c, r) /\ reveal_with(c, r, S)
    ELSE reveal_with(c, r, {})

\* C14: a reveal whose target t is an in-bounds, unrevealed, unflagged
\* non-mine cell leaves revealed exactly the cells revealed before together
\* with Reach(t); a target with adjacent > 0 newly reveals exactly itself.
C14_FloodFillResult ==
  [][(last'.op = "reveal" /\ last'.path = "fill") =>
       \A c \in Cols, r \in Rows :
         (/\ is_inbounds(c, r)
          /\ ~cells[index(c, r)].is_revealed
          /\ ~cells[index(c, r)].is_flagged
          /\ ~cells[index(c, r)].is_mine
          /\ cells'[index(c, r)].is_revealed
          /\ RevealStep(c, r)) =>
           /\ RevealedAt(cells') = RevealedAt(cells) \cup Reach(cells', c, r)
           /\ cells'[index(c, r)].adjacent > 0 =>
                RevealedAt(cells') \ RevealedAt(cells) = {<<c, r>>}]_vars

\* a flood fill has just opened a zero region and its numbered border, next
\* to cells that stay hidden
C14_Witness ==
  /\ last.op = "reveal" /\ last.path = "fill"
  /\ ~win /\ ~game_over
  /\ \E i \in DOMAIN cells :
       cells[i].is_revealed /\ ~cells[i].is_mine /\ cells[i].adjacent > 0
  /\ \E i \in DOMAIN cells : ~cells[i].is_revealed /\ ~cells[i].is_mine

RevealedMines(cs) == {i \in DOMAIN cs : cs[i].is_mine /\ cs[i].is_revealed}

\* C15: a reveal whose target is not a mine opens no mine cell and does not
\* set game_over (a step that does either is a reveal of an in-bounds mine);
\* and while game_over is false no mine cell is revealed (no mine exists
\* initially, so it is enough to look at the state each changing step leaves).
C15_NonMineRevealKeepsMinesHidden ==
  [][\/ UNCHANGED <<cells, game_over>>
     \/ /\ ~game_over' => RevealedMines(cells') = {}
        /\ \/ /\ game_over' = game_over
              /\ RevealedMines(cells') = RevealedMines(cells)
           \/ \A c \in Cols, r \in Rows :
                \/ is_inbounds(c, r) /\ cells'[index(c, r)].is_mine
                \/ ~RevealStep(c, r)]_vars

\* a flood fill has opened a zero region and part of its numbered border
\* next to a mine, and the game goes on with every mine hidden
C15_Witness ==
  /\ last.op = "reveal" /\ last.path = "fill"
  /\ ~game_over
  /\ MineSet # {}
  /\ \A i \in MineSet : ~cells[i].is_revealed
  /\ \E p \in all_positions :
       /\ cells[index(p[1], p[2])].is_mine
       /\ \E k \in 1..Len(neighbors(p[1], p[2])) :
            LET n == neighbors(p[1], p[2])[k]
            IN cells[index(n[1], n[2])].is_revealed
  /\ revealed_count >= 2

\* the mines among the cells of the board that touch p by a side or a corner
MinesAround(cs, p) ==
  {q \in ((p[1] - 1)..(p[1] + 1)) \X ((p[2] - 1)..(p[2] + 1)) :
     /\ q # p
     /\ is_inbounds(q[1], q[2])
     /\ cs[index(q[1], q[2])].is_mine}

AdjacencyCorrect(cs) ==
  \A p \in all_positions :
    LET cell == cs[index(p[1], p[2])] IN
    /\ cell.adjacent \in 0..8
    /\ cell.is_mine => cell.adjacent = 0
    /\ ~cell.is_mine => cell.adjacent = Cardinality(MinesAround(cs, p))

\* C16: once the mines are placed, every non-mine cell's adjacent is the
\* number of mines in its in-bounds 8-neighbourhood (0..8), every mine
\* cell's adjacent is 0, and no later step changes an adjacent value
\* (cells change only in steps that place the mines or follow placement).
C16_AdjacencyCounts ==
  [][\/ UNCHANGED cells
     \/ /\ mines_placed' => AdjacencyCorrect(cells')
        /\ mines_placed =>
             \A i \in DOMAIN cells : cells'[i].adjacent = cells[i].adjacent]_vars

\* a later call (a loss) has run on a board where some cell counts two mines
C16_Witness ==
  /\ mines_placed
  /\ game_over
  /\ last.op = "reveal" /\ last.path = "mine" /\ ~last.placed
  /\ \E i \in DOMAIN cells : ~cells[i].is_mine /\ cells[i].adjacent = 2
  /\ \E i \in DOMAIN cells : cells[i].is_mine /\ cells[i].adjacent = 0

\* the board the flood fill of this step starts from: the cells before the
\* call, with the mines and counts of the next state when the call places
StartCells ==
  IF mines_placed THEN cells
  ELSE place_mines(cells, {p \in all_positions : cells'[index(p[1], p[2])].is_mine})

\* the run of the loop is finite and handles no coordinate twice
FillRunBounded(f) ==
  /\ \A i, j \in 1..Len(f.processed) : i # j => f.processed[i] # f.processed[j]
  /\ SeqToSet(f.processed) = f.visited
  /\ f.visited \subseteq all_positions
  /\ Len(f.processed) <= cols * rows
  /\ Len(f.processed) <= f.dequeued
  /\ f.dequeued <= 1 + 8 * Len(f.processed)

\* C17: the flood-fill loop of every reveal call runs to an empty queue in
\* a bounded number of iterations (at most 1 + 8 per handled coordinate),
\* and each coordinate is added to visited and handled at most once in the
\* call, however many times it was enqueued.
C17_FloodFillTerminates ==
  [][(last'.op = "reveal" /\ last'.path = "fill") =>
       \A c \in Cols, r \in Rows :
         (/\ is_inbounds(c, r)
          /\ ~cells[index(c, r)].is_revealed
          /\ cells'[index(c, r)].is_revealed
          /\ ~cells'[index(c, r)].is_mine
          /\ RevealStep(c, r)) =>
           \A cs \in {StartCells} :
             \A f \in {flood_fill(<< <<c, r>> >>, {}, cs, revealed_count)} :
               FillRunBounded(f)]_vars

\* the first reveal ran a flood fill in which some coordinate was taken off
\* the queue more often than it was handled: the run is replayed from the
\* anchor on the board with every cell hidden
C17_Witness ==
  /\ last.op = "reveal" /\ last.path = "fill" /\ last.placed
  /\ anchor # <<>>
  /\ LET hidden == [i \in DOMAIN cells |-> [cells[i] EXCEPT !.is_revealed = FALSE]]
     IN \E f \in {flood_fill(<<anchor>>, {}, hidden, 0)} :
          /\ f.dequeued > Len(f.processed)
          /\ f.revealed_count = revealed_count
          /\ Len(f.processed) = revealed_count

\* p is a revealed non-mine cell with no mine around it
RevealedZero(p) ==
  /\ cells[index(p[1], p[2])].is_revealed
  /\ ~cells[index(p[1], p[2])].is_mine
  /\ cells[index(p[1], p[2])].adjacent = 0

\* C18: in every state between calls, every revealed non-mine cell whose
\* adjacent is 0 has all of its in-bounds neighbours revealed.
C18_ZeroCellsClosed ==
  \A p \in all_positions :
    RevealedZero(p) =>
      \A n \in SeqToSet(neighbors(p[1], p[2])) :
        cells[index(n[1], n[2])].is_revealed

\* the game goes on after a fill that opened a zero cell with eight
\* neighbours, and some non-mine cell is still hidden
C18_Witness ==
  /\ last.op = "reveal" /\ last.path = "fill"
  /\ ~win /\ ~game_over
  /\ \E p \in all_positions :
       RevealedZero(p) /\ Len(neighbors(p[1], p[2])) = 8
  /\ \E i \in DOMAIN cells : ~cells[i].is_revealed /\ ~cells[i].is_mine

\* C19: on a valid board, in every state between calls revealed_count is
\* the number of cells that are revealed and not mines.
C19_CountMatchesCells ==
  ValidConfiguration =>
    revealed_count =
      Cardinality({i \in DOMAIN cells : cells[i].is_revealed /\ ~cells[i].is_mine})

\* a valid board after a loss: the mines are revealed next to cells opened
\* by earlier fills
C19_Witness ==
  /\ ValidConfiguration
  /\ game_over
  /\ RevealedMines(cells) # {}
  /\ revealed_count >= 1
  /\ \E i \in DOMAIN cells : ~cells[i].is_revealed

\* C20: on every board, once the first in-bounds reveal(c, r) has run, the
\* cell (c, r) has adjacent 0, the cell and each of its in-bounds neighbours
\* are revealed, and revealed_count is at least 1 + the number of those
\* neighbours (cells stay revealed and the counter never decreases, so this
\* is stated for every state from that call on).
C20_FirstClickOpens ==
  mines_placed =>
    /\ anchor # <<>>
    /\ cells[index(anchor[1], anchor[2])].adjacent = 0
    /\ \A p \in forbidden(anchor[1], anchor[2]) :
         cells[index(p[1], p[2])].is_revealed
    /\ revealed_count >= 1 + Len(neighbors(anchor[1], anchor[2]))

\* the first reveal has just run on a cell with eight neighbours, mines
\* were placed and the game is not won
C20_Witness ==
  /\ last.op = "reveal" /\ last.path = "fill" /\ last.placed
  /\ anchor # <<>>
  /\ Len(neighbors(anchor[1], anchor[2])) = 8
  /\ MineSet # {}
  /\ ~win
  /\ revealed_count >= 9

=============================================================================
